---- MODULE Spec2Model ----
(***************************************************************************)
(* Container lifecycle core of lilipod.                                    *)
(*   Spec, FairSpec: Start with its network namespace (start.go,           *)
(*     network.go, generateEnterCommand, netns.go) and Stop, against a     *)
(*     process table that changes under them.                              *)
(*   SpecDir: GetID, GetDir, CreateRootfs and Rename on ContainerDir.      *)
(*   SpecFilter: filterContainer on every record and filter map.           *)
(*   SpecNetns: one NetworkNamespace through New, Setup, StartSlirp and    *)
(*     repeated Cleanup.                                                   *)
(*   SpecEnter: the clone flags and ID maps of generateEnterCommand.       *)
(*   SpecProc: GetPid and IsRunning on /proc with its marker files.        *)
(*   SpecInspect: GetContainerInfo and Inspect.                            *)
(***************************************************************************)
EXTENDS Integers, Sequences, FiniteSets, TLC

\* ---------------------------------------------------------------- bounds
\* largest PID of the process table that is scanned
MaxPid == 3
\* largest timeout handed to Stop
MaxTimeout == 2
\* cap on the bind mounts stacked on the netns mount point
MaxMounts == 2

\* cap on the container directories ever made
MaxDirs == 2

\* longest label filter string
MaxFilterLen == 3
\* most labels a record carries
MaxLabels == 2
\* most containers handed to one Inspect call
MaxInspect == 2

\* the orchestrator's own PID, os.Getpid()
OrchPid == 1

ContainerPids == 2..MaxPid
Timeouts == 0..MaxTimeout

VARIABLES
    pc,           \* position of the running orchestrator invocation
    lastOp,       \* "none", "start" or "stop": the operation pc belongs to
    ret,          \* result of the last return: "none", "ok", "err"
    procs,        \* /proc: pid -> "absent" | "nomarker" | "match"
    fs,           \* runtime_dir: [dir, file, mounts, sock]
    network,      \* config.Network of the running Start
    ns,           \* Start's ns variable is non-nil
    nsSlirp,      \* slirpProcess handle of each NetworkNamespace object, 0 = nil
    slirps,       \* slirp4netns processes spawned during this Start
    err,          \* Start's function-scope err variable is non-nil
    startErr,     \* Start's startErr variable is non-nil
    childPid,     \* PID of the child launched by this Start, 0 = none
    pid,          \* PID obtained by Start through GetPid, 0 = none
    retErr,       \* value of the return statement that runs the deferred call
    cleaned,      \* the deferred cleanupNetworking(ns) has called Cleanup
    nsLog,        \* the setupNetworking calls of this Start that went past the
                  \* network test: [made, setup, fileLeft, dirLeft, outside]
    started,      \* the last Start returned nil with network=private
    force,        \* Stop's force parameter
    timeout0,     \* Stop's timeout parameter as passed
    timeout,      \* Stop's timeout variable
    containerPid, \* Stop's containerPid variable
    sigs,         \* signals Stop has sent: sequence of [sig, pid, ok]
    sleeps,       \* time.Sleep(time.Second) calls of this Stop
    polls,        \* results of the GetPid polls of this Stop
    dirs,         \* ContainerDir: directory name -> [ino, cfg]
    nextIno,      \* next fresh directory identity
    ren,          \* the last Rename call: [old, new, ok, called]
    config,       \* the record handed to filterContainer
    filters,      \* the filter map handed to filterContainer
    filtered,     \* filterContainer has returned
    matches,      \* what filterContainer returned
    nsState,      \* the NetworkNamespace under test: "none", "new", "setup", "slirp"
    cleanLog,     \* the last two Cleanup calls on it: [from, inj, errs, tried, err, fs]
    econf,        \* the record and the ROOTFUL variable given to generateEnterCommand
    ecmd,         \* what generateEnterCommand did, and the child spawned from it
    procIn,       \* /proc with its marker files, and the ID GetPid looks for
    procOut,      \* what GetPid and IsRunning returned: [called, pid, running]
    insIn,        \* the arguments of Inspect / GetContainerInfo and what they find
    insOut        \* what the call returned and whether it ran the rm command

startVars == <<network, ns, nsSlirp, slirps, err, startErr, childPid, pid, retErr, cleaned, nsLog>>
stopVars == <<force, timeout0, timeout, containerPid, sigs, sleeps, polls>>
lifeVars == <<pc, lastOp, ret, procs, fs, started, startVars, stopVars>>
dirVars == <<dirs, nextIno, ren>>
filterVars == <<config, filters, filtered, matches>>
netnsVars == <<nsState, cleanLog>>
enterVars == <<econf, ecmd>>
procVars == <<procIn, procOut>>
inspectVars == <<insIn, insOut>>
auxVars == <<netnsVars, enterVars, procVars, inspectVars>>
vars == <<lifeVars, dirVars, filterVars, auxVars>>

\* ------------------------------------------------------- process discovery
RECURSIVE ScanFrom(_, _)
ScanFrom(p, table) ==
    IF p > MaxPid THEN -1
    ELSE IF table[p] = "match" THEN p
    ELSE ScanFrom(p + 1, table)

\* GetPid: first /proc entry whose marker contains the ID; -1 with an error
\* when /proc cannot be read or no entry matches
GetPid(table, readOk) ==
    IF ~readOk THEN -1 ELSE ScanFrom(2, table)

\* unix.Kill: succeeds iff the process exists
Kill(table, p) == p \in DOMAIN table /\ table[p] # "absent"

\* ------------------------------------------------------ network namespace
CleanupSteps == {"term", "kill", "umount", "rmfile", "rmsock", "rmdir"}

NoFs == [dir |-> FALSE, file |-> FALSE, mounts |-> 0, sock |-> FALSE]

\* netns.New: MkdirAll of the runtime directory
New(f, mkdirOk) ==
    [ok |-> mkdirOk, fs |-> IF mkdirOk THEN [f EXCEPT !.dir = TRUE] ELSE f]

\* NetworkNamespace.Setup: unshare, create the mount point, bind mount
Setup(f, failAt) ==
    IF failAt = "unshare" THEN [ok |-> FALSE, fs |-> f]
    ELSE IF failAt = "write" \/ ~f.dir THEN [ok |-> FALSE, fs |-> f]
    ELSE IF failAt = "mount" \/ f.mounts >= MaxMounts
         THEN \* os.Remove of the mount point: EBUSY while something is mounted on it
              [ok |-> FALSE, fs |-> [f EXCEPT !.file = (f.mounts > 0)]]
    ELSE [ok |-> TRUE, fs |-> [f EXCEPT !.file = TRUE, !.mounts = @ + 1]]

\* NetworkNamespace.StartSlirp: spawn slirp4netns for targetPid, keep the handle
StartSlirp(sl, targetPid, childExists) ==
    Append(sl, [target |-> targetPid, state |-> "running",
                signalled |-> FALSE, childFirst |-> childExists])

\* Cleanup step 1: signal and reap the slirp process the handle h names
CleanupSlirp(sl, h, inj) ==
    IF h = 0 THEN [slirps |-> sl, errs |-> <<>>, tried |-> <<>>]
    ELSE LET done == sl[h].state = "reaped"
             termFail == done \/ "term" \in inj
             killFail == done \/ "kill" \in inj
         IN [slirps |-> [sl EXCEPT ![h].state = "reaped",
                                   ![h].signalled = @ \/ ~termFail \/ ~killFail],
             errs |-> IF ~termFail THEN <<>>
                      ELSE IF ~killFail THEN <<"term">>
                      ELSE <<"term", "kill">>,
             tried |-> IF termFail THEN <<"term", "kill", "wait">>
                       ELSE <<"term", "wait">>]

\* a Cleanup whose filesystem steps end without the RemoveAll
CleanupFs_NoRemoveAll(f, inj) ==
    LET umFail == f.mounts = 0 \/ "umount" \in inj
        f1 == IF umFail THEN f ELSE [f EXCEPT !.mounts = @ - 1]
        rmFail == ~f1.file \/ f1.mounts > 0 \/ "rmfile" \in inj
        f2 == IF rmFail THEN f1 ELSE [f1 EXCEPT !.file = FALSE]
        sockFail == f2.sock /\ "rmsock" \in inj
        f3 == IF sockFail THEN f2 ELSE [f2 EXCEPT !.sock = FALSE]
    IN [fs |-> f3,
        errs |-> (IF umFail THEN <<"umount">> ELSE <<>>)
                 \o (IF rmFail THEN <<"rmfile">> ELSE <<>>)
                 \o (IF sockFail THEN <<"rmsock">> ELSE <<>>),
        tried |-> <<"umount", "rmfile", "rmsock">>]

\* a Cleanup whose filesystem steps return at the first error
CleanupFs_ShortCircuit(f, inj) ==
    LET umFail == f.mounts = 0 \/ "umount" \in inj
        f1 == IF umFail THEN f ELSE [f EXCEPT !.mounts = @ - 1]
        rmFail == ~f1.file \/ f1.mounts > 0 \/ "rmfile" \in inj
        f2 == IF rmFail THEN f1 ELSE [f1 EXCEPT !.file = FALSE]
        sockFail == f2.sock /\ "rmsock" \in inj
        f3 == IF sockFail THEN f2 ELSE [f2 EXCEPT !.sock = FALSE]
        allFail == f3.dir /\ (f3.mounts > 0 \/ "rmdir" \in inj)
        f4 == IF allFail THEN f3 ELSE NoFs
    IN IF umFail THEN [fs |-> f, errs |-> <<"umount">>, tried |-> <<"umount">>]
       ELSE IF rmFail
       THEN [fs |-> f1, errs |-> <<"rmfile">>, tried |-> <<"umount", "rmfile">>]
       ELSE IF sockFail
       THEN [fs |-> f2, errs |-> <<"rmsock">>,
             tried |-> <<"umount", "rmfile", "rmsock">>]
       ELSE [fs |-> f4, errs |-> IF allFail THEN <<"rmdir">> ELSE <<>>,
             tried |-> <<"umount", "rmfile", "rmsock", "rmdir">>]

\* Cleanup steps 2..5 on the filesystem: umount, remove file, remove socket,
\* RemoveAll of the runtime directory
CleanupFs(f, inj) ==
    LET umFail == f.mounts = 0 \/ "umount" \in inj
        mounts1 == IF umFail THEN f.mounts ELSE f.mounts - 1
        rmFail == ~f.file \/ mounts1 > 0 \/ "rmfile" \in inj
        sockFail == f.sock /\ "rmsock" \in inj
        allFail == f.dir /\ (mounts1 > 0 \/ "rmdir" \in inj)
        \* what a failed RemoveAll leaves: it removes the socket it can
        \* reach unless it is itself refused
        left == [mounts |-> mounts1, file |-> f.file /\ rmFail,
                 sock |-> sockFail /\ (mounts1 = 0 \/ "rmdir" \in inj),
                 dir |-> TRUE]
    IN [fs |-> IF allFail THEN left ELSE NoFs,
        errs |-> (IF umFail THEN <<"umount">> ELSE <<>>)
                 \o (IF rmFail THEN <<"rmfile">> ELSE <<>>)
                 \o (IF sockFail THEN <<"rmsock">> ELSE <<>>)
                 \o (IF allFail THEN <<"rmdir">> ELSE <<>>),
        tried |-> <<"umount", "rmfile", "rmsock", "rmdir">>]

\* NetworkNamespace.Cleanup: every step runs, the errors are collected
Cleanup(f, sl, h, inj) ==
    LET a == CleanupSlirp(sl, h, inj)
        b == CleanupFs(f, inj)
    IN [fs |-> b.fs, slirps |-> a.slirps, errs |-> a.errs \o b.errs,
        tried |-> a.tried \o b.tried, err |-> Len(a.errs \o b.errs) > 0]

\* the Cleanup steps that find something to undo, and so can fail for a
\* reason outside the namespace (EBUSY, EPERM, EIO)
CanFail(f, sl, h) ==
    (IF h # 0 /\ sl[h].state # "reaped" THEN {"term", "kill"} ELSE {})
    \cup (IF f.mounts > 0 THEN {"umount"} ELSE {})
    \cup (IF f.file THEN {"rmfile"} ELSE {})
    \cup (IF f.sock THEN {"rmsock"} ELSE {})
    \cup (IF f.dir THEN {"rmdir"} ELSE {})

\* setupNetworking: New, then Setup; Cleanup when Setup fails
setupNetworking(f, net, mkdirOk, failAt, inj) ==
    IF net # "private" THEN [ns |-> FALSE, ok |-> TRUE, fs |-> f, log |-> <<>>]
    ELSE LET n == New(f, mkdirOk)
             s == Setup(n.fs, failAt)
             c == Cleanup(s.fs, <<>>, 0, inj)
             e == [made |-> n.ok, setup |-> "none", fileLeft |-> FALSE,
                   dirLeft |-> FALSE, outside |-> FALSE]
         IN IF ~n.ok THEN [ns |-> FALSE, ok |-> FALSE, fs |-> n.fs, log |-> <<e>>]
            ELSE IF ~s.ok
                 THEN [ns |-> FALSE, ok |-> FALSE, fs |-> c.fs,
                       log |-> <<[e EXCEPT !.setup = "failed",
                                           !.fileLeft = s.fs.file,
                                           !.dirLeft = c.fs.dir,
                                           !.outside = inj \cap CanFail(s.fs, <<>>, 0) # {}]>>]
            ELSE [ns |-> TRUE, ok |-> TRUE, fs |-> s.fs,
                  log |-> <<[e EXCEPT !.setup = "ok"]>>]

SetupFailures == {"none", "unshare", "write", "mount"}

\* cleanupNetworking: Cleanup unless ns is nil
cleanupNetworking(f, sl, nsSet, h, inj) ==
    IF ~nsSet THEN [fs |-> f, slirps |-> sl, errs |-> <<>>, tried |-> <<>>, err |-> FALSE]
    ELSE Cleanup(f, sl, h, inj)

GenFailures == {"none", "marshal", "unshare", "slirp", "maps"}

\* generateEnterCommand: marshal the record, unshare in the parent, and for
\* network=private set up a namespace of its own and start slirp4netns on
\* os.Getpid(); then the UID/GID maps
generateEnterCommand(f, sl, net, child, failAt, mkdirOk, setupFail, inj, sockMade) ==
    IF failAt \in {"marshal", "unshare"}
    THEN [ok |-> FALSE, fs |-> f, slirps |-> sl, h |-> 0]
    ELSE IF net # "private"
    THEN [ok |-> failAt # "maps", fs |-> f, slirps |-> sl, h |-> 0]
    ELSE LET r == setupNetworking(f, net, mkdirOk, setupFail, inj)
             c == cleanupNetworking(r.fs, sl, r.ns, 0, inj)
             sl2 == StartSlirp(sl, OrchPid, child # 0)
         IN IF ~r.ok THEN [ok |-> FALSE, fs |-> r.fs, slirps |-> sl, h |-> 0]
            ELSE IF failAt = "slirp"
                 THEN [ok |-> FALSE, fs |-> c.fs, slirps |-> c.slirps, h |-> 0]
            ELSE [ok |-> failAt # "maps",
                  fs |-> [r.fs EXCEPT !.sock = @ \/ sockMade],
                  slirps |-> sl2, h |-> Len(sl2)]

\* what the setupNetworking call inside generateEnterCommand adds to the log
\* of calls: the call is reached when marshal and unshare succeeded
EnterNetworkingLog(f, net, failAt, mkdirOk, setupFail, inj) ==
    IF failAt \in {"marshal", "unshare"} THEN <<>>
    ELSE setupNetworking(f, net, mkdirOk, setupFail, inj).log

\* ------------------------------------------------------------------ Init
LifeInit ==
    /\ pc = "idle"
    /\ lastOp = "none"
    /\ ret = "none"
    /\ procs = [p \in ContainerPids |-> "absent"]
    /\ fs = NoFs
    /\ network = "host"
    /\ ns = FALSE
    /\ nsSlirp = [ns1 |-> 0, ns2 |-> 0]
    /\ slirps = <<>>
    /\ err = FALSE
    /\ startErr = FALSE
    /\ childPid = 0
    /\ pid = 0
    /\ nsLog = <<>>
    /\ retErr = FALSE
    /\ cleaned = FALSE
    /\ started = FALSE
    /\ force = FALSE
    /\ timeout0 = 0
    /\ timeout = 0
    /\ containerPid = 0
    /\ sigs = <<>>
    /\ sleeps = 0
    /\ polls = <<>>

ResetStart(net) ==
    /\ network' = net
    /\ ns' = FALSE
    /\ nsSlirp' = [ns1 |-> 0, ns2 |-> 0]
    /\ slirps' = <<>>
    /\ err' = FALSE
    /\ startErr' = FALSE
    /\ childPid' = 0
    /\ pid' = 0
    /\ retErr' = FALSE
    /\ cleaned' = FALSE
    /\ nsLog' = <<>>

ResetStop(f, t) ==
    /\ force' = f
    /\ timeout0' = t
    /\ timeout' = t
    /\ containerPid' = 0
    /\ sigs' = <<>>
    /\ sleeps' = 0
    /\ polls' = <<>>

\* ----------------------------------------------------------------- Start
\* a new orchestrator invocation enters Start(interactive, tty, config)
StartCall ==
    /\ pc = "idle"
    /\ \E net \in {"private", "host"} : ResetStart(net)
    /\ ResetStop(FALSE, 0)
    /\ pc' = "inject"
    /\ lastOp' = "start"
    /\ ret' = "none"
    /\ started' = FALSE
    /\ UNCHANGED <<procs, fs>>
    /\ UNCHANGED <<dirVars, filterVars, auxVars>>

\* agent injection: every failure returns before the namespace exists
StartInject ==
    /\ pc = "inject"
    /\ \E ok \in BOOLEAN :
        /\ err' = ~ok
        /\ pc' = IF ok THEN "setup" ELSE "idle"
        /\ ret' = IF ok THEN ret ELSE "err"
    /\ UNCHANGED <<lastOp, procs, fs, started, network, ns, nsSlirp, slirps,
                   startErr, childPid, pid, retErr, cleaned, nsLog, stopVars>>
    /\ UNCHANGED <<dirVars, filterVars, auxVars>>

\* if config.Network == "private": ns, err = setupNetworking(config), and
\* the deferred cleanup is registered
StartSetupNetworking ==
    /\ pc = "setup"
    /\ \E mkdirOk \in BOOLEAN, failAt \in SetupFailures, inj \in SUBSET CleanupSteps :
        LET r == setupNetworking(fs, network, mkdirOk, failAt, inj)
        IN /\ fs' = r.fs
           /\ ns' = r.ns
           /\ err' = ~r.ok
           /\ nsLog' = nsLog \o r.log
           /\ pc' = IF r.ok THEN "gen" ELSE "idle"
           /\ ret' = IF r.ok THEN ret ELSE "err"
    /\ UNCHANGED <<lastOp, procs, started, network, nsSlirp, slirps,
                   startErr, childPid, pid, retErr, cleaned, stopVars>>
    /\ UNCHANGED <<dirVars, filterVars, auxVars>>

\* cmd, err := generateEnterCommand(config)
StartGenerateEnterCommand ==
    /\ pc = "gen"
    /\ \E failAt \in GenFailures, mkdirOk \in BOOLEAN, setupFail \in SetupFailures,
          inj \in SUBSET CleanupSteps, sockMade \in BOOLEAN :
        LET g == generateEnterCommand(fs, slirps, network, childPid, failAt,
                                      mkdirOk, setupFail, inj, sockMade)
        IN /\ fs' = g.fs
           /\ slirps' = g.slirps
           /\ nsSlirp' = [nsSlirp EXCEPT !.ns2 = g.h]
           /\ err' = ~g.ok
           /\ retErr' = ~g.ok
           /\ nsLog' = nsLog \o EnterNetworkingLog(fs, network, failAt, mkdirOk,
                                                    setupFail, inj)
           /\ pc' = IF g.ok THEN "launch" ELSE "defer"
    /\ UNCHANGED <<lastOp, ret, procs, started, network, ns,
                   startErr, childPid, pid, cleaned, stopVars>>
    /\ UNCHANGED <<dirVars, filterVars, auxVars>>

\* the child is launched with RunWithTTY, RunInteractive or RunDetached
StartLaunch ==
    /\ pc = "launch"
    /\ \/ \* the spawn fails
          /\ startErr' = TRUE
          /\ UNCHANGED <<childPid, procs>>
       \/ \* RunDetached: the child runs in the background
          \E c \in ContainerPids, m \in {"nomarker", "match"} :
            /\ procs[c] = "absent"
            /\ childPid' = c
            /\ procs' = [procs EXCEPT ![c] = m]
            /\ startErr' = FALSE
       \/ \* RunWithTTY, RunInteractive: the call returns when the child has exited
          \E c \in ContainerPids, e \in BOOLEAN :
            /\ procs[c] = "absent"
            /\ childPid' = c
            /\ startErr' = e
            /\ UNCHANGED procs
    /\ pc' = IF ns THEN "getpid" ELSE "ret"
    /\ UNCHANGED <<lastOp, ret, fs, started, network, ns, nsSlirp, slirps,
                   err, pid, retErr, cleaned, nsLog, stopVars>>
    /\ UNCHANGED <<dirVars, filterVars, auxVars>>

\* if ns != nil: pid, err := GetPid(config.ID), err shadowing the outer one
StartGetPid ==
    /\ pc = "getpid"
    /\ \E readOk \in BOOLEAN :
        LET p == GetPid(procs, readOk)
        IN /\ pid' = IF p < 1 THEN 0 ELSE p
           /\ retErr' = (p < 1)
           /\ pc' = IF p < 1 THEN "defer" ELSE "slirp"
    /\ UNCHANGED <<lastOp, ret, procs, fs, started, network, ns, nsSlirp, slirps,
                   err, startErr, childPid, cleaned, nsLog, stopVars>>
    /\ UNCHANGED <<dirVars, filterVars, auxVars>>

\* ns.StartSlirp(pid), its error again shadowing the outer err
StartStartSlirp ==
    /\ pc = "slirp"
    /\ \/ /\ retErr' = TRUE
          /\ pc' = "defer"
          /\ UNCHANGED <<slirps, nsSlirp, fs>>
       \/ \E sockMade \in BOOLEAN :
            /\ slirps' = StartSlirp(slirps, pid, childPid # 0)
            /\ nsSlirp' = [nsSlirp EXCEPT !.ns1 = Len(slirps) + 1]
            /\ fs' = [fs EXCEPT !.sock = @ \/ (sockMade /\ fs.dir)]
            /\ pc' = "ret"
            /\ UNCHANGED retErr
    /\ UNCHANGED <<lastOp, ret, procs, started, network, ns,
                   err, startErr, childPid, pid, cleaned, nsLog, stopVars>>
    /\ UNCHANGED <<dirVars, filterVars, auxVars>>

\* return startErr
StartReturn ==
    /\ pc = "ret"
    /\ retErr' = startErr
    /\ pc' = "defer"
    /\ UNCHANGED <<lastOp, ret, procs, fs, started, network, ns, nsSlirp, slirps,
                   err, startErr, childPid, pid, cleaned, nsLog, stopVars>>
    /\ UNCHANGED <<dirVars, filterVars, auxVars>>

\* the deferred function: if err != nil { _ = cleanupNetworking(ns) }; it is
\* registered only when the namespace was set up, and reads the outer err
DeferredCleanup(f, sl, registered, e, h, inj) ==
    IF registered /\ e
    THEN [ran |-> TRUE] @@ cleanupNetworking(f, sl, TRUE, h, inj)
    ELSE [ran |-> FALSE, fs |-> f, slirps |-> sl, errs |-> <<>>]

StartDeferred ==
    /\ pc = "defer"
    /\ \E inj \in SUBSET CleanupSteps :
        LET d == DeferredCleanup(fs, slirps, ns, err, nsSlirp.ns1, inj)
        IN /\ fs' = d.fs
           /\ slirps' = d.slirps
           /\ cleaned' = d.ran
    /\ pc' = "idle"
    /\ ret' = IF retErr THEN "err" ELSE "ok"
    /\ started' = (~retErr /\ network = "private")
    /\ UNCHANGED <<lastOp, procs, network, ns, nsSlirp, err, startErr,
                   childPid, pid, retErr, nsLog, stopVars>>
    /\ UNCHANGED <<dirVars, filterVars, auxVars>>

StartNext ==
    \/ StartCall
    \/ StartInject
    \/ StartSetupNetworking
    \/ StartGenerateEnterCommand
    \/ StartLaunch
    \/ StartGetPid
    \/ StartStartSlirp
    \/ StartReturn
    \/ StartDeferred


\* ------------------------------------------------------------------ Stop
Signal(sig, p, table) == [sig |-> sig, pid |-> p, ok |-> Kill(table, p)]

\* mutant of FirstSignal: force is ignored
FirstSignal_NoForce(f) == "TERM"

\* the signal Stop sends first: SIGKILL when forced, SIGTERM otherwise
FirstSignal(f) == IF f THEN "KILL" ELSE "TERM"

\* mutant of TimedOut: the loop gives up one poll early
TimedOut_Early(t) == t <= 1

\* mutant of TimedOut: the loop polls once more than timeout allows
TimedOut_Late(t) == t < 0

\* loop head of Stop: if timeout <= 0
TimedOut(t) == t <= 0

\* a new orchestrator invocation enters Stop(name, force, timeout)
StopCall ==
    /\ pc = "idle"
    /\ \E f \in BOOLEAN, t \in Timeouts : ResetStop(f, t)
    /\ ResetStart("host")
    /\ pc' = "stop_getpid"
    /\ lastOp' = "stop"
    /\ ret' = "none"
    /\ UNCHANGED <<procs, fs, started>>
    /\ UNCHANGED <<dirVars, filterVars, auxVars>>

\* containerPid, err := GetPid(name); if err != nil { return err }
StopGetPid ==
    /\ pc = "stop_getpid"
    /\ \E readOk \in BOOLEAN :
        LET p == GetPid(procs, readOk)
        IN /\ containerPid' = p
           /\ pc' = IF p < 1 THEN "idle" ELSE "stop_signal"
           /\ ret' = IF p < 1 THEN "err" ELSE ret
    /\ UNCHANGED <<lastOp, procs, fs, started, startVars,
                   force, timeout0, timeout, sigs, sleeps, polls>>
    /\ UNCHANGED <<dirVars, filterVars, auxVars>>

\* if force { return unix.Kill(containerPid, SIGKILL) };
\* err = unix.Kill(containerPid, SIGTERM); if err != nil { return err }
StopSignal ==
    /\ pc = "stop_signal"
    /\ LET s == Signal(FirstSignal(force), containerPid, procs)
       IN /\ sigs' = Append(sigs, s)
          /\ pc' = IF force \/ ~s.ok THEN "idle" ELSE "stop_loop"
          /\ ret' = IF ~s.ok THEN "err" ELSE IF force THEN "ok" ELSE ret
    /\ UNCHANGED <<lastOp, procs, fs, started, startVars,
                   force, timeout0, timeout, containerPid, sleeps, polls>>
    /\ UNCHANGED <<dirVars, filterVars, auxVars>>

\* head of the loop: if timeout <= 0 { return unix.Kill(containerPid, SIGKILL) }
StopLoop ==
    /\ pc = "stop_loop"
    /\ IF TimedOut(timeout)
       THEN LET s == Signal("KILL", containerPid, procs)
            IN /\ sigs' = Append(sigs, s)
               /\ pc' = "idle"
               /\ ret' = IF s.ok THEN "ok" ELSE "err"
       ELSE /\ pc' = "stop_sleep"
            /\ UNCHANGED <<sigs, ret>>
    /\ UNCHANGED <<lastOp, procs, fs, started, startVars,
                   force, timeout0, timeout, containerPid, sleeps, polls>>
    /\ UNCHANGED <<dirVars, filterVars, auxVars>>

\* time.Sleep(time.Second)
StopSleep ==
    /\ pc = "stop_sleep"
    /\ sleeps' = sleeps + 1
    /\ pc' = "stop_poll"
    /\ UNCHANGED <<lastOp, ret, procs, fs, started, startVars,
                   force, timeout0, timeout, containerPid, sigs, polls>>
    /\ UNCHANGED <<dirVars, filterVars, auxVars>>

\* containerPid, _ = GetPid(name); if containerPid < 1 { break }; timeout--
StopPoll ==
    /\ pc = "stop_poll"
    /\ \E readOk \in BOOLEAN :
        LET p == GetPid(procs, readOk)
        IN /\ containerPid' = p
           /\ polls' = Append(polls, p)
           /\ timeout' = IF p < 1 THEN timeout ELSE timeout - 1
           /\ pc' = IF p < 1 THEN "idle" ELSE "stop_loop"
           /\ ret' = IF p < 1 THEN "ok" ELSE ret
    /\ UNCHANGED <<lastOp, procs, fs, started, startVars,
                   force, timeout0, sigs, sleeps>>
    /\ UNCHANGED <<dirVars, filterVars, auxVars>>

StopNext ==
    \/ StopCall
    \/ StopGetPid
    \/ StopSignal
    \/ StopLoop
    \/ StopSleep
    \/ StopPoll

\* ----------------------------------------------------------- environment
\* a process of the table exits
ProcExit ==
    /\ \E p \in ContainerPids :
        /\ procs[p] # "absent"
        /\ procs' = [procs EXCEPT ![p] = "absent"]
    /\ UNCHANGED <<pc, lastOp, ret, fs, started, startVars, stopVars>>
    /\ UNCHANGED <<dirVars, filterVars, auxVars>>

\* the launched child has entered the rootfs: its marker becomes readable
ProcEnter ==
    /\ \E p \in ContainerPids :
        /\ procs[p] = "nomarker"
        /\ procs' = [procs EXCEPT ![p] = "match"]
    /\ UNCHANGED <<pc, lastOp, ret, fs, started, startVars, stopVars>>
    /\ UNCHANGED <<dirVars, filterVars, auxVars>>

\* a process of the container forks: the new process shares the marker
ProcFork ==
    /\ \E p \in ContainerPids, q \in ContainerPids :
        /\ procs[q] = "match"
        /\ procs[p] = "absent"
        /\ procs' = [procs EXCEPT ![p] = "match"]
    /\ UNCHANGED <<pc, lastOp, ret, fs, started, startVars, stopVars>>
    /\ UNCHANGED <<dirVars, filterVars, auxVars>>

EnvNext == ProcExit \/ ProcEnter \/ ProcFork

\* --------------------------------------------------- identity and layout
\* a name is a base string with the MD5 digest applied depth times; depth 0
\* is a human name, depth 1 the 32-hex ID of a human name
Bases == {"alpha", "beta"}
HumanNames == Bases \X {0}

\* md5 hex digest of a name: injective, and no name is its own digest
Hash(name) == <<name[1], name[2] + 1>>

\* fileutils.Exist(filepath.Join(ContainerDir, name))
Exist(d, name) == name \in DOMAIN d

\* mutant of GetID: the name is hashed even when it is a directory name
GetID_AlwaysHash(d, name) == Hash(name)

\* GetID: a name that is a directory of ContainerDir is an ID already
GetID(d, name) == IF Exist(d, name) THEN name ELSE Hash(name)

\* GetDir: the directory of ContainerDir named by the resolved ID
GetDir(d, name) == GetID(d, name)

\* a container is addressed by its human name or by its ID
InputNames == HumanNames \cup {Hash(n) : n \in HumanNames}

\* the directory holds no loadable record
NoConfig == [names |-> <<"", 0>>, id |-> <<"", 0>>, created |-> ""]

RenameFailures == {"none", "move", "load", "save"}

\* os.Rename on directories: the source must exist, a path renamed onto
\* itself is left alone, and an existing target holds a rootfs (ENOTEMPTY)
osRename(d, from, to, moveOk) ==
    IF ~moveOk \/ from \notin DOMAIN d THEN [ok |-> FALSE, dirs |-> d]
    ELSE IF from = to THEN [ok |-> TRUE, dirs |-> d]
    ELSE IF to \in DOMAIN d THEN [ok |-> FALSE, dirs |-> d]
    ELSE [ok |-> TRUE,
          dirs |-> [x \in (DOMAIN d \ {from}) \cup {to} |->
                        IF x = to THEN d[from] ELSE d[x]]]

\* mutant of RewriteConfig: config.ID is left as it was loaded
RewriteConfig_KeepID(d, newContainer, failAt) ==
    LET path == GetDir(d, newContainer)
    IN IF failAt = "load" \/ path \notin DOMAIN d THEN [ok |-> FALSE, dirs |-> d]
       ELSE IF d[path].cfg = NoConfig THEN [ok |-> FALSE, dirs |-> d]
       ELSE IF failAt = "save" THEN [ok |-> FALSE, dirs |-> d]
       ELSE [ok |-> TRUE,
             dirs |-> [d EXCEPT ![path].cfg.names = newContainer,
                                ![path].cfg.created = "now"]]

\* the tail of Rename: load the record of the moved directory, set Names,
\* ID and Created (the time of the call), save it
RewriteConfig(d, newContainer, failAt) ==
    LET path == GetDir(d, newContainer)
    IN IF failAt = "load" \/ path \notin DOMAIN d THEN [ok |-> FALSE, dirs |-> d]
       ELSE IF d[path].cfg = NoConfig THEN [ok |-> FALSE, dirs |-> d]
       ELSE IF failAt = "save" THEN [ok |-> FALSE, dirs |-> d]
       ELSE [ok |-> TRUE,
             dirs |-> [d EXCEPT ![path].cfg =
                          [names |-> newContainer,
                           id |-> GetID(d, newContainer),
                           created |-> "now"]]]

\* mutant of Rename: the check of the destination directory is missing
Rename_NoDestCheck(d, oldContainer, newContainer, failAt) ==
    IF ~Exist(d, GetDir(d, oldContainer)) THEN [ok |-> FALSE, dirs |-> d]
    ELSE LET m == osRename(d, GetDir(d, oldContainer), GetDir(d, newContainer), failAt # "move")
         IN IF ~m.ok THEN [ok |-> FALSE, dirs |-> d]
            ELSE RewriteConfig(m.dirs, newContainer, failAt)

\* Rename: both checks, the move, then the record is rewritten
Rename(d, oldContainer, newContainer, failAt) ==
    IF ~Exist(d, GetDir(d, oldContainer)) THEN [ok |-> FALSE, dirs |-> d]
    ELSE IF Exist(d, GetDir(d, newContainer)) THEN [ok |-> FALSE, dirs |-> d]
    ELSE LET m == osRename(d, GetDir(d, oldContainer), GetDir(d, newContainer), failAt # "move")
         IN IF ~m.ok THEN [ok |-> FALSE, dirs |-> d]
            ELSE RewriteConfig(m.dirs, newContainer, failAt)

NoRename == [old |-> <<"", 0>>, new |-> <<"", 0>>, ok |-> FALSE, called |-> FALSE]

DirInit ==
    /\ dirs = <<>>
    /\ nextIno = 1
    /\ ren = NoRename


\* CreateRootfs(image, name, createConfig, uid, gid): the rootfs directory
\* is made first; every later failure leaves the directory without a new
\* record; the record saved is the caller's, named name with ID GetID(name)
CreateRootfs ==
    /\ \E name \in InputNames, built \in BOOLEAN :
        LET dir == GetDir(dirs, name)
            fresh == dir \notin DOMAIN dirs
            made == IF fresh
                    THEN [x \in DOMAIN dirs \cup {dir} |->
                             IF x = dir THEN [ino |-> nextIno, cfg |-> NoConfig]
                             ELSE dirs[x]]
                    ELSE dirs
        IN /\ fresh => nextIno <= MaxDirs
           /\ nextIno' = IF fresh THEN nextIno + 1 ELSE nextIno
           /\ dirs' = IF built
                      THEN [made EXCEPT ![dir].cfg =
                               [names |-> name, id |-> GetID(made, name), created |-> "now"]]
                      ELSE made
    /\ ren' = NoRename
    /\ UNCHANGED <<lifeVars, filterVars, auxVars>>

\* Rename(oldContainer, newContainer)
RenameCall ==
    /\ \E oldContainer \in InputNames, newContainer \in InputNames,
          failAt \in RenameFailures :
        LET r == Rename(dirs, oldContainer, newContainer, failAt)
        IN /\ dirs' = r.dirs
           /\ ren' = [old |-> oldContainer, new |-> newContainer, ok |-> r.ok,
                      called |-> TRUE]
    /\ UNCHANGED <<nextIno, lifeVars, filterVars, auxVars>>

DirNext == CreateRootfs \/ RenameCall

\* ------------------------------------------------------------- filtering
\* strings are sequences of characters
Chars == {"x", "y", ","}
\* constants.FilterSeparator
FilterSeparator == ","

StringsUpTo(n, alphabet) == UNION {[1..k -> alphabet] : k \in 0..n}
Words == {<<"x">>, <<"y">>}

FilterKeys == {"label", "status", "name", "id"}
UnknownKey == "bogus"

HasSep(s, sep) == \E i \in 1..Len(s) : s[i] = sep
FirstSep(s, sep) == CHOOSE i \in 1..Len(s) : s[i] = sep /\ \A j \in 1..(i - 1) : s[j] # sep

\* strings.Split(s, sep) for a one-character separator
RECURSIVE Split(_, _)
Split(s, sep) ==
    IF ~HasSep(s, sep) THEN <<s>>
    ELSE <<SubSeq(s, 1, FirstSep(s, sep) - 1)>>
         \o Split(SubSeq(s, FirstSep(s, sep) + 1, Len(s)), sep)

\* what one key of the map adds to matched
MatchCount(c, name, filter) ==
    CASE name = "label" ->
            LET labels == Split(filter, FilterSeparator)
            IN Cardinality({ij \in (1..Len(c.Labels)) \X (1..Len(labels)) :
                               c.Labels[ij[1]] = labels[ij[2]]})
      [] name = "status" -> IF c.Status = filter THEN 1 ELSE 0
      [] name = "name" -> IF c.Names = filter THEN 1 ELSE 0
      [] name = "id" -> IF c.ID = filter THEN 1 ELSE 0
      [] OTHER -> 0

RECURSIVE Matched(_, _, _)
Matched(c, f, keys) ==
    IF keys = {} THEN 0
    ELSE LET k == CHOOSE x \in keys : TRUE
         IN MatchCount(c, k, f[k]) + Matched(c, f, keys \ {k})

\* filterContainer: matched >= len(filters), and true for an empty map
filterContainer(c, f) ==
    IF Cardinality(DOMAIN f) = 0 THEN TRUE
    ELSE Matched(c, f, DOMAIN f) >= Cardinality(DOMAIN f)

Records ==
    [Labels : StringsUpTo(MaxLabels, Words), Status : Words, Names : Words,
     ID : {<<"x">>}]

FilterValues(k) ==
    IF k = "label" THEN StringsUpTo(MaxFilterLen, Chars)
    ELSE IF k = UnknownKey THEN {<<"x">>}
    ELSE Words

AllKeys == FilterKeys \cup {UnknownKey}

\* every map from some of the keys to a value of the key
FilterMaps ==
    {[k \in ks |-> g[k]] :
        g \in [label : FilterValues("label"), status : FilterValues("status"),
               name : FilterValues("name"), id : FilterValues("id"),
               bogus : FilterValues(UnknownKey)],
        ks \in SUBSET AllKeys}

\* no filter call is in progress
FilterIdle ==
    /\ config = [Labels |-> <<>>, Status |-> <<"x">>, Names |-> <<"x">>, ID |-> <<"x">>]
    /\ filters = <<>>
    /\ filtered = FALSE
    /\ matches = FALSE

\* ------------------------------------------- one NetworkNamespace object
\* no NetworkNamespace has been made
NetnsIdle ==
    /\ nsState = "none"
    /\ cleanLog = <<>>

\* everything of the lifecycle but the filesystem and the slirp processes
lifeRest == <<pc, lastOp, ret, procs, started, network, ns, err, startErr,
              childPid, pid, retErr, cleaned, nsLog, stopVars>>

\* netns.New(containerID)
NsNew ==
    /\ nsState = "none"
    /\ \E mkdirOk \in BOOLEAN :
        LET r == New(fs, mkdirOk)
        IN /\ fs' = r.fs
           /\ nsState' = IF r.ok THEN "new" ELSE "none"
    /\ UNCHANGED <<cleanLog, slirps, nsSlirp, lifeRest, dirVars, filterVars, enterVars, procVars, inspectVars>>

\* n.Setup()
NsSetup ==
    /\ nsState = "new"
    /\ cleanLog = <<>>
    /\ \E failAt \in SetupFailures :
        LET r == Setup(fs, failAt)
        IN /\ fs' = r.fs
           /\ nsState' = IF r.ok THEN "setup" ELSE "new"
    /\ UNCHANGED <<cleanLog, slirps, nsSlirp, lifeRest, dirVars, filterVars, enterVars, procVars, inspectVars>>

\* n.StartSlirp(pid): the handle is kept when the process started; slirp4netns
\* makes its API socket some time after it started
NsStartSlirp ==
    /\ nsState = "setup"
    /\ cleanLog = <<>>
    /\ \E p \in ContainerPids, startOk \in BOOLEAN, sockMade \in BOOLEAN :
        IF startOk
        THEN /\ slirps' = StartSlirp(slirps, p, TRUE)
             /\ nsSlirp' = [nsSlirp EXCEPT !.ns1 = Len(slirps) + 1]
             /\ fs' = [fs EXCEPT !.sock = sockMade]
             /\ nsState' = "slirp"
        ELSE UNCHANGED <<slirps, nsSlirp, fs, nsState>>
    /\ UNCHANGED <<cleanLog, lifeRest, dirVars, filterVars, enterVars, procVars, inspectVars>>

\* n.Cleanup(), with the steps in inj failing for an outside reason
NsCleanup ==
    /\ nsState # "none"
    /\ \E inj \in SUBSET CanFail(fs, slirps, nsSlirp.ns1) :
        LET r == Cleanup(fs, slirps, nsSlirp.ns1, inj)
            e == [from |-> nsState, inj |-> inj, errs |-> r.errs,
                  tried |-> r.tried, err |-> r.err, fs |-> r.fs]
        IN /\ fs' = r.fs
           /\ slirps' = r.slirps
           /\ cleanLog' = IF Len(cleanLog) = 2 THEN <<cleanLog[2], e>>
                           ELSE Append(cleanLog, e)
    /\ UNCHANGED <<nsState, nsSlirp, lifeRest, dirVars, filterVars, enterVars, procVars, inspectVars>>

NetnsNext == NsNew \/ NsSetup \/ NsStartSlirp \/ NsCleanup

\* ------------------------------------ clone flags and ID maps of the child
\* constants.KeepID, constants.Private, constants.TrueString
KeepID == "keep-id"
Private == "private"
TrueString == "true"

CLONE_NEWNS == "CLONE_NEWNS"
CLONE_NEWUTS == "CLONE_NEWUTS"
CLONE_NEWIPC == "CLONE_NEWIPC"
CLONE_NEWUSER == "CLONE_NEWUSER"
CLONE_NEWPID == "CLONE_NEWPID"
CLONE_NEWCGROUP == "CLONE_NEWCGROUP"

DefaultIDMap == "1000:100000:65536"

\* a keep-id that ignores the ROOTFUL variable
WantsUserns_IgnoreRootful(c) == c.Userns = KeepID

\* config.Userns == constants.KeepID && os.Getenv("ROOTFUL") != constants.TrueString
WantsUserns(c) == c.Userns = KeepID /\ c.ROOTFUL # TrueString

\* cloneFlags when the unshare system call is issued
UnshareFlags(c) ==
    {CLONE_NEWNS, CLONE_NEWUTS}
    \cup (IF WantsUserns(c) THEN {CLONE_NEWUSER} ELSE {})
    \cup (IF c.Ipc = Private THEN {CLONE_NEWIPC} ELSE {})

\* cloneFlags when generateEnterCommand returns: the PID and cgroup flags are
\* added after the system call
CloneFlags(c) ==
    UnshareFlags(c)
    \cup (IF c.Pid = Private THEN {CLONE_NEWPID} ELSE {})
    \cup (IF c.Cgroup = Private THEN {CLONE_NEWCGROUP} ELSE {})

\* maps that stay empty when the record has none
KeepIDMaps_NoDefault(c) ==
    [uid |-> c.Uidmap, gid |-> c.Gidmap, warnings |-> <<>>]

\* the maps handed to SetProcessKeepIDMaps and the warnings logged for them
KeepIDMaps(c) ==
    [uid |-> IF c.Uidmap = "" THEN DefaultIDMap ELSE c.Uidmap,
     gid |-> IF c.Gidmap = "" THEN DefaultIDMap ELSE c.Gidmap,
     warnings |-> (IF c.Uidmap = "" THEN <<"uidMaps">> ELSE <<>>)
                  \o (IF c.Gidmap = "" THEN <<"gidMaps">> ELSE <<>>)]

EnterFailures == {"none", "marshal", "unshare", "maps"}

NoCmd ==
    [state |-> "none", failAt |-> "none", unshared |-> {}, cloneFlags |-> {},
     sysProcCloneflags |-> {}, mapsSet |-> FALSE, uid |-> "", gid |-> "",
     warnings |-> <<>>, childNs |-> {}]

\* generateEnterCommand, its namespace flags and ID maps: marshal, the flags,
\* SysProcAttr without Cloneflags, unshare, the later flags, the maps
EnterCommand(c, failAt) ==
    LET m == KeepIDMaps(c)
        unshared == [NoCmd EXCEPT !.failAt = failAt, !.unshared = UnshareFlags(c),
                                  !.cloneFlags = CloneFlags(c)]
    IN IF failAt = "marshal" THEN [NoCmd EXCEPT !.state = "failed", !.failAt = failAt]
       ELSE IF failAt = "unshare"
       THEN [NoCmd EXCEPT !.state = "failed", !.failAt = failAt,
                          !.cloneFlags = UnshareFlags(c)]
       ELSE IF ~WantsUserns(c) THEN [unshared EXCEPT !.state = "built"]
       ELSE IF failAt = "maps"
       THEN [unshared EXCEPT !.state = "failed", !.warnings = m.warnings]
       ELSE [unshared EXCEPT !.state = "built", !.mapsSet = TRUE, !.uid = m.uid,
                             !.gid = m.gid, !.warnings = m.warnings]

IsolationModes == {Private, "host"}

EnterConfigs ==
    [Userns : {KeepID, ""}, Ipc : IsolationModes, Pid : IsolationModes,
     Cgroup : IsolationModes, Uidmap : {"", "1000:1:1000"},
     Gidmap : {"", "1000:1:1000"}, ROOTFUL : {"", TrueString, "false"}]

EnterIdle ==
    /\ econf = [Userns |-> "", Ipc |-> "host", Pid |-> "host", Cgroup |-> "host",
                Uidmap |-> "", Gidmap |-> "", ROOTFUL |-> ""]
    /\ ecmd = NoCmd

\* Start calls generateEnterCommand(config)
EnterGenerate ==
    /\ ecmd.state = "none"
    /\ \E failAt \in EnterFailures : ecmd' = EnterCommand(econf, failAt)
    /\ UNCHANGED <<econf, netnsVars, lifeVars, dirVars, filterVars, procVars, inspectVars>>

\* Start runs the command: the child is created in the namespaces the parent
\* is in, and in new ones for the Cloneflags of its SysProcAttr
EnterSpawn ==
    /\ ecmd.state = "built"
    /\ ecmd' = [ecmd EXCEPT !.state = "spawned",
                            !.childNs = ecmd.unshared \cup ecmd.sysProcCloneflags]
    /\ UNCHANGED <<econf, netnsVars, lifeVars, dirVars, filterVars, procVars, inspectVars>>

EnterNext == EnterGenerate \/ EnterSpawn

\* ------------------------------------------------ /proc and its markers
\* bytes.Contains(data, sub)
Contains(data, sub) ==
    \E i \in 1..(Len(data) - Len(sub) + 1) : SubSeq(data, i, i + Len(sub) - 1) = sub

\* container IDs, two of them, each a substring of some longer text
ContainerIDs == {<<"a", "b">>, <<"b", "a">>}

\* /proc/<entry>/root/run/.containerenv: absent (no such process any more, or
\* no such file), unreadable, or readable with its contents
MarkerFiles ==
    {[st |-> "missing", data |-> <<>>], [st |-> "unreadable", data |-> <<>>]}
    \cup {[st |-> "ok", data |-> d] :
             d \in {<<>>, <<"a">>, <<"a", "b">>, <<"b", "a">>,
                     <<"a", "b", "a">>, <<"b", "b", "a">>}}

\* os.ReadDir("/proc"), sorted by name: the processes, then "self", which is
\* the calling process under a name that is not a number
ProcEntries(tab) ==
    [i \in 1..(MaxPid + 1) |->
        IF i <= MaxPid THEN [numeric |-> TRUE, pid |-> i, marker |-> tab[i]]
        ELSE [numeric |-> FALSE, pid |-> OrchPid, marker |-> tab[OrchPid]]]

\* a scan that gives up at the first marker it cannot read
RECURSIVE ScanEntries_StopAtUnreadable(_, _)
ScanEntries_StopAtUnreadable(entries, id) ==
    IF entries = <<>> THEN -1
    ELSE LET e == Head(entries)
         IN IF e.marker.st # "ok" THEN -1
            ELSE IF Contains(e.marker.data, id)
            THEN IF e.numeric THEN e.pid ELSE -1
            ELSE ScanEntries_StopAtUnreadable(Tail(entries), id)

\* the loop of GetPid: skip the entries whose marker cannot be read, return
\* the first whose marker contains the ID, parsed as a number
RECURSIVE ScanEntries(_, _)
ScanEntries(entries, id) ==
    IF entries = <<>> THEN -1
    ELSE LET e == Head(entries)
         IN IF e.marker.st # "ok" THEN ScanEntries(Tail(entries), id)
            ELSE IF Contains(e.marker.data, id)
            THEN IF e.numeric THEN e.pid ELSE -1
            ELSE ScanEntries(Tail(entries), id)

\* GetPid on /proc with its files, for the resolved ID
GetPidScan(tab, id, readOk) ==
    IF ~readOk THEN -1 ELSE ScanEntries(ProcEntries(tab), id)

\* IsRunning: pid > 0 && err == nil; err is nil iff pid is not -1
IsRunning(p) == p > 0 /\ p # -1

ProcIdle ==
    /\ procIn = [tab |-> [p \in 1..MaxPid |-> [st |-> "missing", data |-> <<>>]],
                 id |-> <<"a", "b">>, readOk |-> TRUE]
    /\ procOut = [called |-> FALSE, pid |-> 0, running |-> FALSE]

\* IsRunning(name), which calls GetPid(name)
IsRunningCall ==
    /\ ~procOut.called
    /\ LET p == GetPidScan(procIn.tab, procIn.id, procIn.readOk)
       IN procOut' = [called |-> TRUE, pid |-> p, running |-> IsRunning(p)]
    /\ UNCHANGED <<procIn, netnsVars, enterVars, lifeVars, dirVars, filterVars, inspectVars>>

\* ------------------------------------------- Inspect and GetContainerInfo
StatusRunning == <<"r", "u", "n", "n", "i", "n", "g">>
StatusStopped == <<"s", "t", "o", "p", "p", "e", "d">>

\* utils.LoadConfig(configPath): the record, or an error for a file that is
\* not there or cannot be parsed
LoadResults == {"ok", "missing", "corrupt"}

NoInfo == [nil |-> TRUE, err |-> FALSE, rm |-> FALSE, status |-> <<>>, emitted |-> 0]

\* GetContainerInfo: load (on failure run "rm" and return its result), filter
\* the loaded record, then derive the state and the size
GetContainerInfo(load, cfg, filter, size, duOk, rmOk, table) ==
    IF load # "ok" THEN [NoInfo EXCEPT !.rm = TRUE, !.err = ~rmOk]
    ELSE IF ~filterContainer(cfg, filter) THEN NoInfo
    ELSE LET state == IF IsRunning(GetPid(table, TRUE))
                      THEN StatusRunning ELSE StatusStopped
         IN IF size /\ ~duOk THEN [NoInfo EXCEPT !.err = TRUE]
            ELSE [NoInfo EXCEPT !.nil = FALSE, !.status = state, !.emitted = 1]

\* Inspect: for each container load the record (any failure is returned as
\* it is), derive the status and the size, render; the first error ends it
RECURSIVE Inspect(_, _, _, _, _)
Inspect(loads, size, duOk, table, done) ==
    IF loads = <<>>
    THEN [NoInfo EXCEPT !.nil = FALSE, !.emitted = done,
                        !.status = IF IsRunning(GetPid(table, TRUE))
                                   THEN StatusRunning ELSE StatusStopped]
    ELSE IF Head(loads) # "ok" THEN [NoInfo EXCEPT !.err = TRUE]
    ELSE IF size /\ ~duOk THEN [NoInfo EXCEPT !.err = TRUE]
    ELSE Inspect(Tail(loads), size, duOk, table, done + 1)

\* the filter maps of a listing: a status and, or, a name
InspectFilters ==
    {[k \in ks |-> g[k]] :
        g \in [status : {StatusRunning, StatusStopped}, name : {<<"x">>, <<"y">>}],
        ks \in SUBSET {"status", "name"}}

InspectInputs ==
    [loads : UNION {[1..n -> LoadResults] : n \in 1..MaxInspect},
     status : {<<>>, StatusRunning, StatusStopped},
     filter : InspectFilters,
     size : BOOLEAN, duOk : BOOLEAN, rmOk : BOOLEAN,
     table : [ContainerPids -> {"absent", "nomarker", "match"}]]

NoInspect == [op |-> "none", nil |-> TRUE, err |-> FALSE, rm |-> FALSE,
              status |-> <<>>, emitted |-> 0]

InspectIdle ==
    /\ insIn = [loads |-> <<"ok">>, status |-> <<>>, filter |-> <<>>,
                size |-> FALSE, duOk |-> TRUE, rmOk |-> TRUE,
                table |-> [p \in ContainerPids |-> "absent"]]
    /\ insOut = NoInspect

\* the record LoadConfig returns: the Status is the one of the file
LoadedConfig == [Labels |-> <<>>, Status |-> insIn.status, Names |-> <<"x">>,
                 ID |-> <<"x">>]

\* GetContainerInfo(container, size, filters) on the first container
GetContainerInfoCall ==
    /\ insOut.op = "none"
    /\ LET r == GetContainerInfo(insIn.loads[1], LoadedConfig, insIn.filter,
                                 insIn.size, insIn.duOk, insIn.rmOk, insIn.table)
       IN insOut' = [op |-> "info", nil |-> r.nil, err |-> r.err, rm |-> r.rm,
                     status |-> r.status, emitted |-> r.emitted]
    /\ UNCHANGED <<insIn, netnsVars, enterVars, procVars, lifeVars, dirVars, filterVars>>

\* Inspect(containers, size, format)
InspectCall ==
    /\ insOut.op = "none"
    /\ LET r == Inspect(insIn.loads, insIn.size, insIn.duOk, insIn.table, 0)
       IN insOut' = [op |-> "inspect", nil |-> r.nil, err |-> r.err, rm |-> r.rm,
                     status |-> r.status, emitted |-> r.emitted]
    /\ UNCHANGED <<insIn, netnsVars, enterVars, procVars, lifeVars, dirVars, filterVars>>

InspectNext == GetContainerInfoCall \/ InspectCall

AuxIdle == NetnsIdle /\ EnterIdle /\ ProcIdle /\ InspectIdle

Init == LifeInit /\ DirInit /\ FilterIdle /\ AuxIdle

\* the inputs of one generateEnterCommand call
InitEnter ==
    /\ LifeInit
    /\ DirInit
    /\ FilterIdle
    /\ NetnsIdle
    /\ ProcIdle
    /\ InspectIdle
    /\ econf \in EnterConfigs
    /\ ecmd = NoCmd

\* the inputs of one Inspect or GetContainerInfo call
InitInspect ==
    /\ LifeInit
    /\ DirInit
    /\ FilterIdle
    /\ NetnsIdle
    /\ EnterIdle
    /\ ProcIdle
    /\ insIn \in InspectInputs
    /\ insOut = NoInspect

\* the inputs of one IsRunning call
InitProc ==
    /\ LifeInit
    /\ DirInit
    /\ FilterIdle
    /\ NetnsIdle
    /\ EnterIdle
    /\ InspectIdle
    /\ procIn \in [tab : [1..MaxPid -> MarkerFiles], id : ContainerIDs,
                    readOk : BOOLEAN]
    /\ procOut = [called |-> FALSE, pid |-> 0, running |-> FALSE]

\* the inputs of one filterContainer call
InitFilter ==
    /\ LifeInit
    /\ DirInit
    /\ AuxIdle
    /\ config \in Records
    /\ filters \in FilterMaps
    /\ filtered = FALSE
    /\ matches = FALSE

FilterContainerCall ==
    /\ ~filtered
    /\ filtered' = TRUE
    /\ matches' = filterContainer(config, filters)
    /\ UNCHANGED <<config, filters, lifeVars, dirVars, auxVars>>

Next == StartNext \/ StopNext \/ EnvNext

Spec == Init /\ [][Next]_vars

SpecDir == Init /\ [][DirNext]_vars

SpecFilter == InitFilter /\ [][FilterContainerCall]_vars

SpecNetns == Init /\ [][NetnsNext]_vars

SpecEnter == InitEnter /\ [][EnterNext]_vars

SpecProc == InitProc /\ [][IsRunningCall]_vars

SpecInspect == InitInspect /\ [][InspectNext]_vars

\* the steps of a running invocation: a sequential program whose system
\* calls (kill, sleep, the /proc scan, spawn) return
Running ==
    \/ StartInject \/ StartSetupNetworking \/ StartGenerateEnterCommand
    \/ StartLaunch \/ StartGetPid \/ StartStartSlirp \/ StartReturn
    \/ StartDeferred
    \/ StopGetPid \/ StopSignal \/ StopLoop \/ StopSleep \/ StopPoll

FairSpec == Spec /\ WF_vars(Running)


\* ================================================================ claims
InStart == lastOp = "start"
InStop == lastOp = "stop"
Returned == pc = "idle"

\* C1: in Start with network=private every slirp process is spawned after
\* the child has been launched, and its target is the PID obtained through
\* GetPid, never the orchestrator's own PID.
C1_SlirpOnlyAfterChild ==
    (InStart /\ network = "private") =>
        \A i \in 1..Len(slirps) :
            /\ slirps[i].childFirst
            /\ slirps[i].target # OrchPid
            /\ pid # 0 /\ slirps[i].target = pid

\* C2: once setup() has succeeded, a Start with network=private that returns
\* an error has called cleanup() on that namespace before it returns.
C2_CleanupOnEveryError ==
    (InStart /\ Returned /\ network = "private" /\ ns /\ ret = "err") => cleaned

\* C3: after a successful Start with network=private followed by a Stop that
\* succeeded and the exit of the container's processes, runtime_dir no longer
\* exists.
C3_RuntimeDirGoneAfterStop ==
    (InStop /\ Returned /\ started /\ ret = "ok"
        /\ \A p \in ContainerPids : procs[p] = "absent") => ~fs.dir

AllResolved == \A i \in 1..Len(polls) : polls[i] >= 1
TermDelivered == Len(sigs) >= 1 /\ sigs[1].sig = "TERM" /\ sigs[1].ok
KillsSent == {i \in 1..Len(sigs) : sigs[i].sig = "KILL"}

\* C4: a non-forced Stop whose container resolves at every poll sends exactly
\* one SIGTERM, then performs exactly timeout polls, each after a one-second
\* sleep, then sends exactly one SIGKILL; no SIGKILL precedes the last poll.
C4_StopEscalation ==
    (InStop /\ ~force /\ TermDelivered /\ AllResolved) =>
        /\ Len(polls) <= timeout0
        /\ sleeps \in {Len(polls), Len(polls) + 1}
        /\ sleeps <= timeout0
        /\ KillsSent \subseteq {2}
        /\ KillsSent # {} => Len(polls) = timeout0 /\ sleeps = timeout0
        /\ Returned => /\ Len(sigs) = 2
                       /\ sigs[2].sig = "KILL"
                       /\ Len(polls) = timeout0
                       /\ sleeps = timeout0

C4_Witness ==
    /\ InStop /\ Returned /\ ~force /\ TermDelivered /\ AllResolved
    /\ timeout0 = 2 /\ Len(polls) = 2 /\ sleeps = 2
    /\ Len(sigs) = 2 /\ sigs[2].sig = "KILL"

\* C5: a non-forced Stop that has delivered its SIGTERM performs at most
\* timeout polls and returns, and when it has returned either the last poll
\* did not resolve the container (GetPid errors included) and the result is
\* success, or a SIGKILL has been sent.
C5_Bounded ==
    (InStop /\ ~force /\ TermDelivered) =>
        /\ Len(polls) <= timeout0
        /\ sleeps <= timeout0
        /\ Returned =>
            \/ /\ polls # <<>> /\ polls[Len(polls)] < 1
               /\ ret = "ok" /\ KillsSent = {}
            \/ /\ KillsSent = {Len(sigs)}
               /\ \A i \in 1..Len(polls) : polls[i] >= 1

C5_StopTerminates ==
    /\ []C5_Bounded
    /\ (InStop /\ ~Returned) ~> (InStop /\ Returned)

C5_Witness ==
    /\ InStop /\ Returned /\ ~force /\ TermDelivered
    /\ timeout0 = 2 /\ Len(polls) = 2 /\ polls[1] >= 1 /\ polls[2] < 1
    /\ ret = "ok"

\* C6: a forced Stop of a running container sends exactly one SIGKILL, to
\* the PID it resolved, and returns: no SIGTERM, no poll, no sleep, whatever
\* the timeout.
C6_ForceKillsOnce ==
    (InStop /\ force) =>
        /\ pc \notin {"stop_loop", "stop_sleep", "stop_poll"}
        /\ polls = <<>> /\ sleeps = 0
        /\ \A i \in 1..Len(sigs) :
            i = 1 /\ sigs[i].sig = "KILL" /\ sigs[i].pid = containerPid
        /\ (Returned /\ containerPid >= 1) => Len(sigs) = 1

C6_Witness ==
    /\ InStop /\ Returned /\ force /\ timeout0 = 2 /\ ret = "ok"
    /\ Len(sigs) = 1 /\ sigs[1].sig = "KILL" /\ sigs[1].pid = 3


\* ------------------------------------------------------------ C7 .. C9
ResolvableNames == InputNames \cup {Hash(n) : n \in InputNames}

\* C7 as stated: GetID(GetID(N)) = GetID(N) for every name N in every state
\* of the containers directory.
C7_ResolveIdempotent ==
    \A n \in ResolvableNames : GetID(dirs, GetID(dirs, n)) = GetID(dirs, n)

\* C7 amended: GetID(GetID(N)) = GetID(N) exactly for the names N whose
\* directory GetID(N) exists; for every other name GetID(GetID(N)) is the
\* digest of the digest of N.
C7_IdempotentOnExisting ==
    \A n \in ResolvableNames :
        IF Exist(dirs, GetID(dirs, n))
        THEN GetID(dirs, GetID(dirs, n)) = GetID(dirs, n)
        ELSE /\ GetID(dirs, n) = Hash(n)
             /\ GetID(dirs, GetID(dirs, n)) = Hash(Hash(n))
             /\ GetID(dirs, GetID(dirs, n)) # GetID(dirs, n)

C7_Witness ==
    /\ Exist(dirs, Hash(<<"alpha", 0>>))
    /\ ~Exist(dirs, Hash(<<"beta", 0>>))
    /\ GetID(dirs, <<"alpha", 0>>) = <<"alpha", 1>>
    /\ GetID(dirs, GetID(dirs, <<"alpha", 0>>)) = <<"alpha", 1>>
    /\ GetID(dirs, GetID(dirs, <<"beta", 0>>)) = <<"beta", 2>>

\* C8: in every successful Rename(A, B) the directory named Hash(B) exists
\* afterwards and is the directory that held A, the path that held A is
\* gone, every other directory is untouched, and the record in it has
\* names = B and id = Hash(B) = GetID(B), the directory's own name.
C8_RenameMoves ==
    [][(ren'.called /\ ren'.ok) =>
        LET from == GetDir(dirs, ren'.old)
            to == Hash(ren'.new)
        IN /\ Exist(dirs, from)
           /\ Exist(dirs', to)
           /\ dirs'[to].ino = dirs[from].ino
           /\ ~Exist(dirs', from)
           /\ dirs'[to].cfg.names = ren'.new
           /\ dirs'[to].cfg.id = Hash(ren'.new)
           /\ GetID(dirs', ren'.new) = Hash(ren'.new)
           /\ GetDir(dirs', ren'.new) = to
           /\ DOMAIN dirs' = (DOMAIN dirs \ {from}) \cup {to}
           /\ \A x \in DOMAIN dirs \ {from} : dirs'[x] = dirs[x]]_vars

C8_Witness ==
    /\ ren.called /\ ren.ok
    /\ ren.old = <<"alpha", 0>> /\ ren.new = <<"beta", 0>>
    /\ Exist(dirs, <<"beta", 1>>) /\ ~Exist(dirs, <<"alpha", 1>>)
    /\ dirs[<<"beta", 1>>].cfg.names = <<"beta", 0>>
    /\ dirs[<<"beta", 1>>].cfg.id = <<"beta", 1>>

RenamePreconditions(d, old, new) ==
    Exist(d, GetDir(d, old)) /\ ~Exist(d, GetDir(d, new))

\* C9: a Rename whose source directory does not exist or whose destination
\* directory exists returns an error, moves no directory and rewrites no
\* record.
C9_RenamePreconditions ==
    [][(ren'.called /\ ~RenamePreconditions(dirs, ren'.old, ren'.new)) =>
        (~ren'.ok /\ dirs' = dirs)]_vars

\* new is the ID of another existing container
C9_Witness ==
    /\ ren.called /\ ~ren.ok
    /\ ren.old = <<"alpha", 0>> /\ ren.new = <<"beta", 1>>
    /\ Exist(dirs, <<"alpha", 1>>) /\ Exist(dirs, <<"beta", 1>>)
    /\ dirs[<<"alpha", 1>>].cfg.names = <<"alpha", 0>>


\* ------------------------------------------------------------------ C10
\* a supplied filter key finds at least one match in the record
KeyMatches(c, f, k) ==
    CASE k = "label" -> \E i \in 1..Len(c.Labels) :
                            \E j \in 1..Len(Split(f[k], FilterSeparator)) :
                                c.Labels[i] = Split(f[k], FilterSeparator)[j]
      [] k = "status" -> c.Status = f[k]
      [] k = "name" -> c.Names = f[k]
      [] k = "id" -> c.ID = f[k]
      [] OTHER -> FALSE

\* C10: for a filter map of recognized keys filterContainer returns true iff
\* every supplied key finds at least one match in the record.
C10_MatchesIffEveryKey ==
    (filtered /\ DOMAIN filters \subseteq FilterKeys) =>
        (matches <=> \A k \in DOMAIN filters : KeyMatches(config, filters, k))


\* ------------------------------------------------------------------ C11
\* the filter map f without its key k
Without(f, k) == [x \in DOMAIN f \ {k} |-> f[x]]

\* C11: filtering is monotone: when a record passes a filter map it also
\* passes the map with any one of its keys taken away.
C11_FilterMonotone ==
    (filtered /\ matches) =>
        \A k \in DOMAIN filters : filterContainer(config, Without(filters, k))


\* ------------------------------------------------------------------ C12
\* the steps named in q occur in the sequence t, in the order of q
RECURSIVE InOrder(_, _)
InOrder(q, t) ==
    IF q = <<>> THEN TRUE
    ELSE IF t = <<>> THEN FALSE
    ELSE IF Head(q) = Head(t) THEN InOrder(Tail(q), Tail(t))
    ELSE InOrder(q, Tail(t))

Reported(e) == {e.errs[i] : i \in 1..Len(e.errs)}

\* C12: Cleanup called twice on one NetworkNamespace (only made, set up, or
\* with slirp attached): the first call, when none of its steps fails for an
\* outside reason, leaves no mount, no mount-point file, no API socket and no
\* runtime directory; the second call returns (with the errors of the steps
\* that found nothing to undo) and leaves that same state. A second call
\* with the same outside failures as the first leaves the state of the first.
C12_CleanupIdempotent ==
    Len(cleanLog) = 2 =>
        /\ cleanLog[1].inj = {} =>
              (cleanLog[1].fs = NoFs /\ cleanLog[2].fs = cleanLog[1].fs)
        /\ cleanLog[2].inj = cleanLog[1].inj => cleanLog[2].fs = cleanLog[1].fs
        /\ InOrder(<<"umount", "rmfile", "rmsock", "rmdir">>, cleanLog[2].tried)

\* two Cleanup calls on a namespace with slirp attached and its socket made:
\* the second finds the process reaped and nothing mounted
C12_Witness ==
    /\ Len(cleanLog) = 2
    /\ cleanLog[1].from = "slirp" /\ cleanLog[1].inj = {}
    /\ cleanLog[1].errs = <<>>
    /\ cleanLog[2].errs = <<"term", "kill", "umount", "rmfile">>
    /\ fs = NoFs
    /\ slirps[nsSlirp.ns1].state = "reaped"


\* ------------------------------------------------------------------ C13
\* C13: Cleanup never short-circuits: whichever steps fail, the unmount, the
\* two removals and the RemoveAll of the runtime directory are all attempted,
\* in that order (so the directory is gone whenever nothing stays mounted and
\* the RemoveAll itself does not fail), and the call returns an error iff at
\* least one step reported one.
C13_CleanupRunsEveryStep ==
    \A i \in 1..Len(cleanLog) :
        LET e == cleanLog[i]
        IN /\ InOrder(<<"umount", "rmfile", "rmsock", "rmdir">>, e.tried)
           /\ (e.from = "slirp") => InOrder(<<"term", "wait", "umount">>, e.tried)
           /\ (e.fs.mounts = 0 /\ "rmdir" \notin e.inj) => e.fs = NoFs
           /\ e.err <=> Reported(e) # {}
           /\ Reported(e) \subseteq {e.tried[j] : j \in 1..Len(e.tried)}

\* SIGTERM, SIGKILL and the removal of the mount point fail, and the runtime
\* directory is removed all the same
C13_Witness ==
    /\ Len(cleanLog) = 1
    /\ cleanLog[1].from = "slirp"
    /\ cleanLog[1].inj = {"term", "kill", "rmfile"}
    /\ cleanLog[1].errs = <<"term", "kill", "rmfile">>
    /\ cleanLog[1].fs = NoFs
    /\ cleanLog[1].tried = <<"term", "kill", "wait", "umount", "rmfile", "rmsock", "rmdir">>
    /\ cleanLog[1].err


\* ------------------------------------------------------------------ C14
\* the namespaces the record and the ROOTFUL variable ask for
WantedNamespaces(c) ==
    {CLONE_NEWNS, CLONE_NEWUTS}
    \cup (IF c.Ipc = Private THEN {CLONE_NEWIPC} ELSE {})
    \cup (IF c.Pid = Private THEN {CLONE_NEWPID} ELSE {})
    \cup (IF c.Cgroup = Private THEN {CLONE_NEWCGROUP} ELSE {})
    \cup (IF c.Userns = KeepID /\ c.ROOTFUL # TrueString THEN {CLONE_NEWUSER} ELSE {})

\* C14: the namespaces the parent unshares for the child are exactly mount
\* and UTS, IPC iff ipc is private, PID iff pid is private, cgroup iff cgroup
\* is private, user iff userns is keep-id and ROOTFUL is not true: the
\* unshare that is issued carries every one of them, and the child is
\* spawned in them.
C14_UnshareCarriesEveryFlag ==
    /\ ecmd.state \in {"built", "spawned"} => ecmd.unshared = WantedNamespaces(econf)
    /\ ecmd.state = "spawned" => ecmd.childNs = WantedNamespaces(econf)


\* ------------------------------------------------------------------ C15
\* C15: with userns keep-id and ROOTFUL not true (unset included) the child
\* command gets the record's uidmap and gidmap; for an empty one it gets
\* 1000:100000:65536 and a warning is logged, and the call does not fail for
\* it.
C15_KeepIDMaps ==
    (econf.Userns = KeepID /\ econf.ROOTFUL # TrueString /\ ecmd.state # "none") =>
        /\ ecmd.failAt = "none" => ecmd.state \in {"built", "spawned"}
        /\ ecmd.state \in {"built", "spawned"} =>
            /\ ecmd.mapsSet
            /\ ecmd.uid = (IF econf.Uidmap = "" THEN "1000:100000:65536" ELSE econf.Uidmap)
            /\ ecmd.gid = (IF econf.Gidmap = "" THEN "1000:100000:65536" ELSE econf.Gidmap)
            /\ ("uidMaps" \in {ecmd.warnings[i] : i \in 1..Len(ecmd.warnings)}
                    <=> econf.Uidmap = "")
            /\ ("gidMaps" \in {ecmd.warnings[i] : i \in 1..Len(ecmd.warnings)}
                    <=> econf.Gidmap = "")

\* keep-id, ROOTFUL unset, no uidmap in the record, a gidmap of its own: the
\* child is spawned with the default UID map
C15_Witness ==
    /\ econf.Userns = KeepID /\ econf.ROOTFUL = ""
    /\ econf.Uidmap = "" /\ econf.Gidmap = "1000:1:1000"
    /\ ecmd.state = "spawned"
    /\ ecmd.uid = "1000:100000:65536" /\ ecmd.gid = "1000:1:1000"
    /\ ecmd.warnings = <<"uidMaps">>
    /\ CLONE_NEWUSER \in ecmd.childNs


\* ------------------------------------------------------------------ C16
\* C16: with userns keep-id and ROOTFUL=true no user namespace is asked for
\* and no UID/GID map is installed, whatever the other isolation modes are.
C16_RootfulOverride ==
    (econf.Userns = KeepID /\ econf.ROOTFUL = TrueString) =>
        /\ CLONE_NEWUSER \notin ecmd.unshared \cup ecmd.cloneFlags \cup ecmd.childNs
        /\ ~ecmd.mapsSet /\ ecmd.uid = "" /\ ecmd.gid = ""
        /\ ecmd.warnings = <<>>

\* keep-id under ROOTFUL=true with ipc private: the child is spawned
\* without a user namespace and without maps
C16_Witness ==
    /\ econf.Userns = KeepID /\ econf.ROOTFUL = TrueString
    /\ econf.Ipc = Private /\ econf.Uidmap = "1000:1:1000"
    /\ ecmd.state = "spawned"
    /\ CLONE_NEWIPC \in ecmd.childNs
    /\ CLONE_NEWUSER \notin ecmd.childNs
    /\ ~ecmd.mapsSet


\* ------------------------------------------------------------------ C17
\* the processes whose marker file can be read and has the ID in it
Marked == {p \in 1..MaxPid : /\ procIn.tab[p].st = "ok"
                             /\ \E i \in 1..Len(procIn.tab[p].data) :
                                    \E j \in i..Len(procIn.tab[p].data) :
                                        SubSeq(procIn.tab[p].data, i, j) = procIn.id}

FirstFailed ==
    IF \A i \in 1..Len(insIn.loads) : insIn.loads[i] = "ok" THEN 0
    ELSE CHOOSE i \in 1..Len(insIn.loads) :
            /\ insIn.loads[i] # "ok"
            /\ \A j \in 1..(i - 1) : insIn.loads[j] = "ok"

\* C18: Inspect of a record that is there and cannot be parsed runs the rm
\* command on that container; Inspect of a record that is not there only
\* returns an error.
C18_InspectRemovesCorrupt ==
    (insOut.op = "inspect" /\ FirstFailed # 0 /\ (insIn.size => insIn.duOk)) =>
        /\ insOut.err
        /\ insOut.rm <=> insIn.loads[FirstFailed] = "corrupt"


\* ------------------------------------------------------------------ C19
\* C19: GetContainerInfo of a record that does not load runs the rm command
\* and returns a non-nil error, also when the rm command succeeds.
C19_LoadFailureSurfaces ==
    (insOut.op = "info" /\ insIn.loads[1] # "ok") => (insOut.rm /\ insOut.err)


\* ------------------------------------------------------------------ C20
\* the container is running according to GetPid
RunningNow == \E p \in ContainerPids : insIn.table[p] = "match"

\* C20: GetContainerInfo under the filter status=running returns the
\* container iff it is running, and under status=stopped iff it is not:
\* the filter sees the derived status, not the Status of the file.
C20_StatusFilterDerived ==
    (/\ insOut.op = "info" /\ insIn.loads[1] = "ok"
     /\ DOMAIN insIn.filter = {"status"}
     /\ insIn.size => insIn.duOk) =>
        /\ insIn.filter["status"] = <<"r", "u", "n", "n", "i", "n", "g">> =>
                (~insOut.nil <=> RunningNow)
        /\ insIn.filter["status"] = <<"s", "t", "o", "p", "p", "e", "d">> =>
                (~insOut.nil <=> ~RunningNow)


\* ------------------------------------------------------------------ C21
\* C21: an unknown filter key is skipped: a filter map with a key other than
\* label, status, name, id gives the result of the map without that key.
C21_UnknownKeySkipped ==
    (filtered /\ UnknownKey \in DOMAIN filters) =>
        (matches <=> filterContainer(config, Without(filters, UnknownKey)))


\* ------------------------------------------------------------------ C22
\* C22: Cleanup on a namespace whose mount point is not mounted (Setup never
\* ran or failed, or Cleanup already ran) does not report the unmount, and
\* Cleanup of a namespace that was only made with New returns no error when
\* nothing else fails.
C22_NotMountedIgnored ==
    /\ (Len(cleanLog) >= 1 /\ cleanLog[1].from = "new") =>
            /\ "umount" \notin Reported(cleanLog[1])
            /\ cleanLog[1].inj = {} => ~cleanLog[1].err
    /\ (Len(cleanLog) = 2 /\ cleanLog[1].fs.mounts = 0) =>
            "umount" \notin Reported(cleanLog[2])


\* ------------------------------------------------------------------ C23
\* C23: whichever step of Setup fails, the mount-point file does not exist
\* when Setup returns its error; and setupNetworking, after the Cleanup it
\* runs on that failure, leaves no runtime directory unless a step of that
\* Cleanup fails for an outside reason.
C23_SetupLeavesNothing ==
    \A i \in 1..Len(nsLog) :
        nsLog[i].setup = "failed" =>
            /\ ~nsLog[i].fileLeft
            /\ ~nsLog[i].outside => ~nsLog[i].dirLeft


\* ------------------------------------------------------------------ C24
\* C24: one Start with network=private makes at most one NetworkNamespace
\* (netns.New) and performs Setup at most once, so it never mounts a second
\* namespace on the runtime directory that pins the first.
C24_OneNamespacePerStart ==
    InStart =>
        /\ Cardinality({i \in 1..Len(nsLog) : nsLog[i].made}) <= 1
        /\ Cardinality({i \in 1..Len(nsLog) : nsLog[i].setup # "none"}) <= 1


\* ------------------------------------------------------------------ C25
\* C25: when Start returns an error, every slirp4netns process spawned
\* during that Start has been signalled and reaped by a Cleanup.
C25_NoSlirpLeaked ==
    (InStart /\ Returned /\ ret = "err") =>
        \A i \in 1..Len(slirps) :
            slirps[i].state = "reaped" /\ slirps[i].signalled


\* ------------------------------------------------------------------ C26
\* C26: in a Stop without force the SIGKILL of the timeout goes to the PID
\* that received the SIGTERM, the one GetPid resolved when Stop began.
C26_KillSamePid ==
    (InStop /\ ~force) =>
        \A i \in KillsSent : sigs[i].pid = sigs[1].pid


\* ------------------------------------------------------------------ C27
\* C27: Rename is all-or-nothing: a Rename that returns an error, a failure
\* to load or to save the record after the move included, leaves every
\* container directory and every record as it was before the call.
C27_RenameAllOrNothing ==
    [][(ren'.called /\ ~ren'.ok) => dirs' = dirs]_vars

====
